---- MODULE Spec2Model ----
(***************************************************************************)
(* Model of the clip pipeline (handleFileSelect) and of the search         *)
(* (handleSearch, the debounce, re-sort and auto-select effects) of        *)
(* src/App.tsx, and of the services they await                             *)
(* (src/services/geminiService.ts).                                        *)
(*                                                                         *)
(* One action is one synchronous block of JavaScript: the code between two *)
(* awaits of an async handler, or one DOM callback, together with the      *)
(* effects React runs after it.  React state is the session; the local     *)
(* variables of each invocation of handleFileSelect live in one record of  *)
(* runs, the closure of each invocation of handleSearch in debounce and    *)
(* searches.  The sidebar tab, which handleSearch switches to 'clips', is  *)
(* not part of the model.                                                  *)
(***************************************************************************)
EXTENDS Integers, Sequences, FiniteSets, TLC

\* ------------------------------------------------------------------ bounds
MaxClips == 2        \* longest list of raw clips the visual analysis returns
MaxSegs == 1         \* longest transcript the transcription returns
MaxRuns == 2         \* invocations of handleFileSelect in one behaviour
MaxInFlight == 2     \* invocations of handleSearch awaiting their embedding at once
MaxSortLen == 3      \* longest list sortClips is applied to on its own
MaxClampLen == 2     \* longest list the clamping is applied to on its own
MaxAnyLen == 1       \* longest list of arbitrary raw clips a run is fed
MaxSampleDuration == 12  \* longest video the sampler is run on by itself
MaxSampleInterval == 4   \* largest intervalSeconds it is called with
MaxSampleFrames == 5     \* largest maxFrames it is called with
MaxSpan == 4             \* latest time of a span the overlap test is applied to

\* ------------------------------------------------------- program constants
IntervalSeconds == 4 \* extractFramesFromVideo(selectedFile, 4, 45, ...)
MaxFrames == 45
threshold == 30      \* const threshold = 0.3, in hundredths
Boost == 50          \* score: clip.score + 0.5, in hundredths

\* AppState (src/types.ts)
IDLE == "IDLE"
PROCESSING == "PROCESSING"
ANALYZING == "ANALYZING"
READY == "READY"
ERROR == "ERROR"

\* progress.stage strings of handleFileSelect
StageFrames == "Extracting frames..."
StageGemini == "Gemini is analyzing video content..."
StageTranscribe == "Transcribing audio..."
StageIndex == "Indexing into vector database..."

\* activeClip === null
NULL == [null |-> TRUE]

\* ------------------------------------------------------------- input sets
\* video.duration of the selected file, in seconds
Durations == {10}

\* A text is the sequence of its characters, so that toLowerCase, trim and
\* includes work on it as they do on a JavaScript string.
\*
\* Raw clip candidates the visual analysis may return.  The response schema
\* makes startTime, endTime, title, summary, viralityScore and tags required,
\* and VideoClip declares transcriptStub a string; title stands for the
\* descriptor text "title summary tags reasoning".
RawClipPool ==
  { [startTime |-> 4,  endTime |-> 12, title |-> <<"b">>, viralityScore |-> 90,
     transcriptStub |-> <<"G", "o">>],
    [startTime |-> -5, endTime |-> 4,  title |-> <<"a">>, viralityScore |-> 40,
     transcriptStub |-> <<"i", "n">>] }

\* Transcript segments the transcription may return
SegmentPool ==
  { [startTime |-> 0, endTime |-> 5, text |-> <<"A", "g", "o">>],
    [startTime |-> 4, endTime |-> 8, text |-> <<"i", "n">>] }

SeqsUpTo(S, n) == UNION { [1..k -> S] : k \in 0..n }

Max(a, b) == IF a >= b THEN a ELSE b
Min(a, b) == IF a <= b THEN a ELSE b

\* ------------------------------------------------------------------ state
VARIABLES
  appState,       \* useState<AppState>
  clips,          \* useState<VideoClip[]>
  activeClip,     \* useState<VideoClip | null>
  progress,       \* useState<ProcessingProgress>
  transcript,     \* useState<TranscriptSegment[]>
  filteredClips,  \* useState<VideoClip[]>
  sortOrder,      \* useState<'time' | 'viral'>
  runs,           \* one record per invocation of handleFileSelect, in order
  searchQuery,    \* useState('')
  isSearching,    \* useState(false)
  debounce,       \* the pending setTimeout of the debounce effect: empty, or
                  \* the closure its handleSearch will run in
  searches        \* the closures of the invocations of handleSearch that
                  \* await generateEmbedding, in the order they started

searchVars == <<searchQuery, isSearching, debounce, searches>>
sessionVars == <<appState, clips, activeClip, progress, transcript, filteredClips, sortOrder,
                 searchVars>>
vars == <<appState, clips, activeClip, progress, transcript, filteredClips, sortOrder, runs,
          searchQuery, isSearching, debounce, searches>>

\* ---------------------------------------------------------------- sortClips
\* Array.prototype.sort is stable: an element goes after every element it
\* does not strictly precede.
Before(a, b, order) ==
  IF order = "viral" THEN a.viralityScore > b.viralityScore
                     ELSE a.startTime < b.startTime

\* Mutant of InsertSorted: an element goes before the elements it ties with
RECURSIVE InsertSorted_Unstable(_, _, _)
InsertSorted_Unstable(sorted, c, order) ==
  IF sorted = <<>> THEN <<c>>
  ELSE IF ~Before(Head(sorted), c, order) THEN <<c>> \o sorted
  ELSE <<Head(sorted)>> \o InsertSorted_Unstable(Tail(sorted), c, order)

RECURSIVE InsertSorted(_, _, _)
InsertSorted(sorted, c, order) ==
  IF sorted = <<>> THEN <<c>>
  ELSE IF Before(c, Head(sorted), order) THEN <<c>> \o sorted
  ELSE <<Head(sorted)>> \o InsertSorted(Tail(sorted), c, order)

\* Mutant of sortClips: the list is taken from its end, so that ties come out
\* in reverse
RECURSIVE sortClips_TiesReversed(_, _)
sortClips_TiesReversed(list, order) ==
  IF list = <<>> THEN <<>>
  ELSE InsertSorted(sortClips_TiesReversed(Tail(list), order), Head(list), order)

RECURSIVE sortClips(_, _)
sortClips(list, order) ==
  IF list = <<>> THEN <<>>
  ELSE InsertSorted(sortClips(SubSeq(list, 1, Len(list) - 1), order), list[Len(list)], order)

\* ------------------------------------------------------------------ texts
\* String.prototype.toLowerCase, on the letters the texts are made of
LowerChar(c) ==
  CASE c = "A" -> "a"
    [] c = "G" -> "g"
    [] c = "I" -> "i"
    [] c = "N" -> "n"
    [] c = "O" -> "o"
    [] OTHER   -> c

toLowerCase(text) == [i \in 1..Len(text) |-> LowerChar(text[i])]

\* String.prototype.trim: white space at both ends removed
RECURSIVE trimStart(_)
trimStart(text) ==
  IF text # <<>> /\ Head(text) = " " THEN trimStart(Tail(text)) ELSE text

RECURSIVE trimEnd(_)
trimEnd(text) ==
  IF text # <<>> /\ text[Len(text)] = " " THEN trimEnd(SubSeq(text, 1, Len(text) - 1)) ELSE text

trim(text) == trimEnd(trimStart(text))

\* String.prototype.includes: part occurs in text as a run of characters
includes(text, part) ==
  \E i \in 1..(Len(text) - Len(part) + 1) : SubSeq(text, i, i + Len(part) - 1) = part

\* -------------------------------------------------------- cosineSimilarity
RECURSIVE Dot(_, _)
Dot(a, b) ==
  IF a = <<>> \/ b = <<>> THEN 0 ELSE a[1] * b[1] + Dot(Tail(a), Tail(b))

\* The norm of a vector whose norm is whole
Norm(a) == CHOOSE n \in 0..Dot(a, a) : n * n = Dot(a, a)

\* dot(a, b) / (|a| * |b|), in hundredths; 0 when a vector is empty or has
\* norm zero
cosineSimilarity(a, b) ==
  IF a = <<>> \/ b = <<>> \/ Norm(a) = 0 \/ Norm(b) = 0 THEN 0
  ELSE (100 * Dot(a, b)) \div (Norm(a) * Norm(b))

\* ------------------------------------------------------- analyzeVideoFrames
\* A variant that clamps endTime only and keeps a negative startTime
ClampClips_EndOnly(rawClips, videoDuration, stamp) ==
  [i \in 1..Len(rawClips) |->
     [id |-> <<stamp, i - 1>>,
      startTime |-> rawClips[i].startTime,
      endTime |-> Min(videoDuration, rawClips[i].endTime),
      title |-> rawClips[i].title,
      viralityScore |-> rawClips[i].viralityScore,
      transcriptStub |-> rawClips[i].transcriptStub]]

\* rawClips.map: ids added, startTime and endTime clamped
ClampClips(rawClips, videoDuration, stamp) ==
  [i \in 1..Len(rawClips) |->
     [id |-> <<stamp, i - 1>>,
      startTime |-> Max(0, rawClips[i].startTime),
      endTime |-> Min(videoDuration, rawClips[i].endTime),
      title |-> rawClips[i].title,
      viralityScore |-> rawClips[i].viralityScore,
      transcriptStub |-> rawClips[i].transcriptStub]]

\* What ai.models.generateContent can answer to the visual analysis
AnalysisResponses ==
  { [kind |-> k, clips |-> <<>>] : k \in {"throws", "noText", "badJson"} }
  \cup { [kind |-> "json", clips |-> s] : s \in SeqsUpTo(RawClipPool, MaxClips) }

\* -------------------------------------------------------- generateEmbedding
\* The vector the embedding backend computes for a text.  The vectors have
\* whole norms, so that every cosine is a whole number of hundredths.
EmbeddingOf(text) ==
  CASE text = <<"a">>      -> <<1, 0>>
    [] text = <<"b">>      -> <<0, 1>>
    [] text = <<"g", "o">> -> <<24, -7>>
    [] OTHER               -> <<3, 4>>

\* generateEmbedding: the values, or [] when the response holds none or the
\* call throws
generateEmbedding(text, outcome) ==
  IF outcome = "values" THEN EmbeddingOf(text) ELSE <<>>

EmbeddingOutcomes == {"values", "noEmbedding", "throws"}

\* ------------------------------------------------ extractFramesFromVideo
\* Times of the sampler are kept as numerators over maxFrames, so that
\* duration / maxFrames is exact.

\* A variant that ignores neededInterval
FinalInterval_Base(duration, intervalSeconds, maxFrames) ==
  intervalSeconds * maxFrames

\* Math.max(intervalSeconds, duration / maxFrames)
FinalInterval(duration, intervalSeconds, maxFrames) ==
  Max(intervalSeconds * maxFrames, duration)

\* A variant whose schedule still samples at currentTime = duration
CaptureDone_Inclusive(currentTime, duration, frames, maxFrames) ==
  currentTime > duration * maxFrames \/ frames >= maxFrames

\* captureFrame's guard: the schedule is over
CaptureDone(currentTime, duration, frames, maxFrames) ==
  currentTime >= duration * maxFrames \/ frames >= maxFrames

\* Mutant of FrameProgress: the share of the video still to be sampled
FrameProgress_Remaining(currentTime, duration, maxFrames) ==
  Min(99, 100 - (2 * 100 * currentTime + duration * maxFrames) \div (2 * duration * maxFrames))

\* Math.min(99, Math.round((currentTime / duration) * 100))
FrameProgress(currentTime, duration, maxFrames) ==
  Min(99, (2 * 100 * currentTime + duration * maxFrames) \div (2 * duration * maxFrames))

\* ------------------------------------------------------------------- runs
NewRun(order) ==
  [pc |-> "loadMetadata",
   sortOrder |-> order,          \* the sortOrder the handler's closure holds
   duration |-> 0,
   currentTime |-> 0,
   frames |-> 0,
   generatedClips |-> <<>>,
   generatedTranscript |-> <<>>,
   embeddings |-> <<>>,          \* one call per clip, in clip order: pending,
                                 \* or settled with values or without (failed)
   sampling |-> "",              \* how extractFramesFromVideo settled
   analysis |-> "",              \* how analyzeVideoFrames settled
   audio |-> ""]                 \* how extractAudio / generateTranscript settled

Pending == [state |-> "pending", value |-> <<>>]

\* The state after the first render.  The debounce effect also arms a timer
\* at mount; it fires 500 ms later, while no file can have been processed, and
\* its handleSearch sets filteredClips to [] again: Init is the state it leaves.
Init ==
  /\ appState = IDLE
  /\ clips = <<>>
  /\ activeClip = NULL
  /\ progress = [stage |-> "", progress |-> 0]
  /\ transcript = <<>>
  /\ filteredClips = <<>>
  /\ sortOrder = "time"
  /\ runs = <<>>
  /\ searchQuery = <<>>
  /\ isSearching = FALSE
  /\ debounce = <<>>
  /\ searches = <<>>

\* "Automatically select the first clip when the list changes" (useEffect on
\* [filteredClips, appState]): the active clip after the effect has run
AutoSelect(state, list, active) ==
  IF state = READY /\ Len(list) > 0 THEN list[1] ELSE active

\* --------------------------------------------------------------- actions
\* handleFileSelect up to its first await
StartRun ==
  /\ appState' = PROCESSING
  /\ clips' = <<>>
  /\ activeClip' = NULL
  /\ transcript' = <<>>
  /\ progress' = [stage |-> StageFrames, progress |-> 0]
  /\ runs' = Append(runs, NewRun(sortOrder))
  /\ UNCHANGED <<filteredClips, sortOrder, searchVars>>

\* The uploader is rendered only while appState === IDLE
HandleFileSelect ==
  /\ appState = IDLE
  /\ Len(runs) < MaxRuns
  /\ StartRun


\* The session fields a step of handleFileSelect leaves alone
SetRun(r, rec) == runs' = [runs EXCEPT ![r] = rec]

\* catch (error) { setAppState(AppState.ERROR) }: the invocation returns and
\* its locals are gone; how its calls settled is remembered
CatchFatal(r, rec) ==
  /\ appState' = ERROR
  /\ SetRun(r, [NewRun(rec.sortOrder) EXCEPT
       !.pc = "done", !.sampling = rec.sampling, !.analysis = rec.analysis, !.audio = rec.audio])
  /\ UNCHANGED <<clips, activeClip, progress, transcript, filteredClips, sortOrder, searchVars>>

\* extractFramesFromVideo: video.onloadedmetadata, then the first captureFrame()
OnLoadedMetadata(r) ==
  /\ runs[r].pc = "loadMetadata"
  /\ \E d \in Durations :
       SetRun(r, [runs[r] EXCEPT
         !.duration = d,
         !.pc = IF CaptureDone(0, d, 0, MaxFrames) THEN "framesResolved" ELSE "seeking"])
  /\ UNCHANGED sessionVars

\* extractFramesFromVideo: video.onseeked pushes a frame, reports progress,
\* advances currentTime and calls captureFrame()
OnSeeked(r) ==
  /\ runs[r].pc = "seeking"
  /\ LET run == runs[r]
         next == run.currentTime + FinalInterval(run.duration, IntervalSeconds, MaxFrames)
     IN /\ progress' = [stage |-> StageFrames,
                        progress |-> FrameProgress(run.currentTime, run.duration, MaxFrames)]
        /\ SetRun(r, [run EXCEPT
             !.frames = run.frames + 1,
             !.currentTime = next,
             !.pc = IF CaptureDone(next, run.duration, run.frames + 1, MaxFrames)
                    THEN "framesResolved" ELSE "seeking"])
  /\ UNCHANGED <<appState, clips, activeClip, transcript, filteredClips, sortOrder, searchVars>>

\* extractFramesFromVideo rejects: no canvas context, the video does not load,
\* or video.onerror during a seek
ExtractFramesRejects(r) ==
  /\ runs[r].pc \in {"loadMetadata", "seeking"}
  /\ CatchFatal(r, [runs[r] EXCEPT !.sampling = "rejected"])

\* handleFileSelect after the frames: "2. Analyze with Gemini (Visual)"
AfterFrames(r) ==
  /\ runs[r].pc = "framesResolved"
  /\ appState' = ANALYZING
  /\ progress' = [stage |-> StageGemini, progress |-> 0]
  /\ SetRun(r, [runs[r] EXCEPT !.pc = "videoMetadata", !.sampling = "resolved"])
  /\ UNCHANGED <<clips, activeClip, transcript, filteredClips, sortOrder, searchVars>>

\* await new Promise(r => videoElement.onloadedmetadata = r) resolves, and
\* analyzeVideoFrames(frames, duration) is called
VideoMetadataLoaded(r) ==
  /\ runs[r].pc = "videoMetadata"
  /\ SetRun(r, [runs[r] EXCEPT !.pc = "analyze"])
  /\ UNCHANGED sessionVars

\* The second video element fails to load: nothing listens for its error
\* event, so the awaited promise never settles
VideoMetadataError(r) ==
  /\ runs[r].pc = "videoMetadata"
  /\ SetRun(r, [runs[r] EXCEPT !.pc = "hung"])
  /\ UNCHANGED sessionVars

\* Mutant of AnalyzeSettles: analyzeVideoFrames swallows its error and returns
\* [] the way generateTranscript does
AnalyzeSettles_SwallowsError(r, resp) ==
  /\ runs[r].pc = "analyze"
  /\ progress' = [stage |-> StageTranscribe, progress |-> 50]
  /\ SetRun(r, [runs[r] EXCEPT
       !.generatedClips = ClampClips(resp.clips, runs[r].duration, r),
       !.analysis = resp.kind,
       !.pc = "extractAudio"])
  /\ UNCHANGED <<appState, clips, activeClip, transcript, filteredClips, sortOrder, searchVars>>

\* analyzeVideoFrames settles.  A thrown call, an empty text and a text that is
\* no JSON all throw into handleFileSelect's catch; a JSON list is clamped and
\* the handler goes on with "3. Extract Audio & Transcribe"
AnalyzeSettles(r, resp) ==
  /\ runs[r].pc = "analyze"
  /\ IF resp.kind # "json"
     THEN CatchFatal(r, [runs[r] EXCEPT !.analysis = resp.kind])
     ELSE /\ progress' = [stage |-> StageTranscribe, progress |-> 50]
          /\ SetRun(r, [runs[r] EXCEPT
               !.generatedClips = ClampClips(resp.clips, runs[r].duration, r),
               !.analysis = resp.kind,
               !.pc = "extractAudio"])
          /\ UNCHANGED <<appState, clips, activeClip, transcript, filteredClips, sortOrder, searchVars>>

AnalyzeReturns(r) == \E resp \in AnalysisResponses : AnalyzeSettles(r, resp)

\* "4. Generate embeddings for search": one generateEmbedding call per clip
StartEmbedding(r, rec) ==
  /\ progress' = [stage |-> StageIndex, progress |-> 90]
  /\ SetRun(r, [rec EXCEPT
       !.embeddings = [i \in 1..Len(rec.generatedClips) |-> Pending],
       !.pc = "embed"])

\* extractAudio resolves; generateTranscript is called
ExtractAudioReturns(r) ==
  /\ runs[r].pc = "extractAudio"
  /\ SetRun(r, [runs[r] EXCEPT !.pc = "transcribe"])
  /\ UNCHANGED sessionVars

\* Mutant of ExtractAudioThrows: no inner try/catch around the transcription
ExtractAudioThrows_Uncaught(r) ==
  /\ runs[r].pc = "extractAudio"
  /\ CatchFatal(r, [runs[r] EXCEPT !.audio = "extractAudioThrows"])

\* extractAudio throws: the inner catch warns and the handler goes on
ExtractAudioThrows(r) ==
  /\ runs[r].pc = "extractAudio"
  /\ StartEmbedding(r, [runs[r] EXCEPT !.audio = "extractAudioThrows"])
  /\ UNCHANGED <<appState, clips, activeClip, transcript, filteredClips, sortOrder, searchVars>>

\* generateTranscript never throws: it returns the parsed segments, or [] for
\* an empty text or a thrown call
generateTranscript(outcome, segments) ==
  IF outcome = "json" THEN segments ELSE <<>>

TranscriptOutcomes ==
  { [kind |-> k, segments |-> <<>>] : k \in {"throws", "noText"} }
  \cup { [kind |-> "json", segments |-> s] : s \in SeqsUpTo(SegmentPool, MaxSegs) }

\* Mutant of TranscriptSettles: generateTranscript rethrows like
\* analyzeVideoFrames and the handler awaits it outside the inner try
TranscriptSettles_Rethrows(r, out) ==
  /\ runs[r].pc = "transcribe"
  /\ IF out.kind = "throws"
     THEN CatchFatal(r, [runs[r] EXCEPT !.audio = "transcribeThrows"])
     ELSE /\ transcript' = out.segments
          /\ StartEmbedding(r, [runs[r] EXCEPT
               !.generatedTranscript = out.segments, !.audio = "transcribed"])
          /\ UNCHANGED <<appState, clips, activeClip, filteredClips, sortOrder, searchVars>>

\* generateTranscript resolves: setTranscript, then stage 4
TranscriptSettles(r, out) ==
  /\ runs[r].pc = "transcribe"
  /\ LET generatedTranscript == generateTranscript(out.kind, out.segments)
     IN /\ transcript' = generatedTranscript
        /\ StartEmbedding(r, [runs[r] EXCEPT
             !.generatedTranscript = generatedTranscript,
             !.audio = IF out.kind = "throws" THEN "transcribeThrows" ELSE "transcribed"])
  /\ UNCHANGED <<appState, clips, activeClip, filteredClips, sortOrder, searchVars>>

TranscriptReturns(r) == \E out \in TranscriptOutcomes : TranscriptSettles(r, out)

\* The generateEmbedding call of clip i settles; the calls settle in any order
EmbeddingSettles(r, i, outcome) ==
  /\ runs[r].pc = "embed"
  /\ runs[r].embeddings[i].state = "pending"
  /\ SetRun(r, [runs[r] EXCEPT !.embeddings[i] =
       [state |-> IF outcome = "values" THEN "values" ELSE "failed",
        value |-> generateEmbedding(runs[r].generatedClips[i].title, outcome)]])
  /\ UNCHANGED sessionVars

EmbeddingReturns(r) ==
  \E i \in 1..Len(runs[r].embeddings) : \E outcome \in EmbeddingOutcomes :
     EmbeddingSettles(r, i, outcome)

\* Mutant of ClipsWithEmbeddings: clips whose embedding came back empty are
\* filtered out before publication
ClipsWithEmbeddings_DropsFailed(generatedClips, embeddings) ==
  LET all == [i \in 1..Len(generatedClips) |->
                [id |-> generatedClips[i].id,
                 startTime |-> generatedClips[i].startTime,
                 endTime |-> generatedClips[i].endTime,
                 title |-> generatedClips[i].title,
                 viralityScore |-> generatedClips[i].viralityScore,
                 transcriptStub |-> generatedClips[i].transcriptStub,
                 embedding |-> embeddings[i].value]]
      HasEmbedding(c) == c.embedding # <<>>
  IN SelectSeq(all, HasEmbedding)

\* Promise.all: result i is { ...clip i, embedding: result of call i }
ClipsWithEmbeddings(generatedClips, embeddings) ==
  [i \in 1..Len(generatedClips) |->
     [id |-> generatedClips[i].id,
      startTime |-> generatedClips[i].startTime,
      endTime |-> generatedClips[i].endTime,
      title |-> generatedClips[i].title,
      viralityScore |-> generatedClips[i].viralityScore,
      transcriptStub |-> generatedClips[i].transcriptStub,
      embedding |-> embeddings[i].value]]

AllSettled(r) ==
  \A i \in 1..Len(runs[r].embeddings) : runs[r].embeddings[i].state # "pending"

\* Mutant of Publish: the clips are published as the analysis returned them
Publish_Unsorted(r) ==
  /\ runs[r].pc = "embed"
  /\ AllSettled(r)
  /\ LET sortedClips == ClipsWithEmbeddings(runs[r].generatedClips, runs[r].embeddings)
     IN /\ clips' = sortedClips
        /\ filteredClips' = sortedClips
        /\ appState' = READY
        /\ activeClip' = AutoSelect(READY, sortedClips,
                           IF Len(sortedClips) > 0 THEN sortedClips[1] ELSE activeClip)
  /\ SetRun(r, [runs[r] EXCEPT !.pc = "done"])
  /\ UNCHANGED <<progress, transcript, sortOrder, searchVars>>

\* Promise.all resolves: "Initial Sort", setClips, setFilteredClips,
\* setActiveClip, setAppState(READY), then the auto-select effect
Publish(r) ==
  /\ runs[r].pc = "embed"
  /\ AllSettled(r)
  /\ LET sortedClips == sortClips(ClipsWithEmbeddings(runs[r].generatedClips, runs[r].embeddings),
                                  runs[r].sortOrder)
     IN /\ clips' = sortedClips
        /\ filteredClips' = sortedClips
        /\ appState' = READY
        /\ activeClip' = AutoSelect(READY, sortedClips,
                           IF Len(sortedClips) > 0 THEN sortedClips[1] ELSE activeClip)
  /\ SetRun(r, [runs[r] EXCEPT !.pc = "done"])
  /\ UNCHANGED <<progress, transcript, sortOrder, searchVars>>

\* Mutant of TryAgain: the button restarts processing instead of going idle
TryAgain_Restarts ==
  /\ appState = ERROR
  /\ appState' = PROCESSING
  /\ UNCHANGED <<clips, activeClip, progress, transcript, filteredClips, sortOrder, runs, searchVars>>

\* The "Try Again" button of the error screen
TryAgain ==
  /\ appState = ERROR
  /\ appState' = IDLE
  /\ UNCHANGED <<clips, activeClip, progress, transcript, filteredClips, sortOrder, runs, searchVars>>

\* Mutant of SetSortOrder: the re-sort effect sorts the stored clips instead
\* of the displayed ones
SetSortOrder_SortsStoredClips(order) ==
  /\ appState = READY
  /\ order # sortOrder
  /\ sortOrder' = order
  /\ filteredClips' = sortClips(clips, order)
  /\ activeClip' = AutoSelect(appState, filteredClips', activeClip)
  /\ UNCHANGED <<appState, clips, progress, transcript, runs, searchVars>>

\* The sort control (rendered in READY): setSortOrder, then the re-sort effect
\* and the auto-select effect
SetSortOrder(order) ==
  /\ appState = READY
  /\ order # sortOrder
  /\ sortOrder' = order
  /\ filteredClips' = sortClips(filteredClips, order)
  /\ activeClip' = AutoSelect(appState, filteredClips', activeClip)
  /\ UNCHANGED <<appState, clips, progress, transcript, runs, searchVars>>

ChangeSortOrder == \E order \in {"time", "viral"} : SetSortOrder(order)

\* ------------------------------------------------------------ handleSearch
\* The state a render's handleSearch closes over
Closure(query) ==
  [searchQuery |-> query, clips |-> clips, transcript |-> transcript, sortOrder |-> sortOrder]

\* Queries typed into the search box
Queries == { <<>>, <<"g", "o">> }

\* { ...clip, score }
WithScore(clip, score) ==
  [id |-> clip.id, startTime |-> clip.startTime, endTime |-> clip.endTime,
   title |-> clip.title, viralityScore |-> clip.viralityScore,
   transcriptStub |-> clip.transcriptStub, embedding |-> clip.embedding, score |-> score]

\* transcript.filter(seg => seg.text.toLowerCase().includes(queryLower))
matchingTranscriptSegments(segments, queryLower) ==
  SelectSeq(segments, LAMBDA seg : includes(toLowerCase(seg.text), queryLower))

\* A variant in which a shared boundary counts as well
hasTranscriptMatch_Closed(clip, segments) ==
  \E k \in 1..Len(segments) :
    LET seg == segments[k]
    IN \/ seg.startTime >= clip.startTime /\ seg.startTime <= clip.endTime
       \/ seg.endTime >= clip.startTime /\ seg.endTime <= clip.endTime
       \/ clip.startTime >= seg.startTime /\ clip.endTime <= seg.endTime

\* matchingTranscriptSegments.some(seg => ...): the three-case overlap test
hasTranscriptMatch(clip, segments) ==
  \E k \in 1..Len(segments) :
    LET seg == segments[k]
    IN \/ seg.startTime >= clip.startTime /\ seg.startTime < clip.endTime
       \/ seg.endTime > clip.startTime /\ seg.endTime <= clip.endTime
       \/ clip.startTime >= seg.startTime /\ clip.endTime <= seg.endTime

hasStubMatch(clip, queryLower) == includes(toLowerCase(clip.transcriptStub), queryLower)

\* Mutant of boost: one boost for the transcript match and one for the stub
boost_Stacks(clip, segments, queryLower) ==
  [clip EXCEPT !.score = @ + (IF hasTranscriptMatch(clip, segments) THEN Boost ELSE 0)
                           + (IF hasStubMatch(clip, queryLower) THEN Boost ELSE 0)]

\* "Boost score if clip overlaps with matching transcript segment"
boost(clip, segments, queryLower) ==
  IF hasTranscriptMatch(clip, segments) \/ hasStubMatch(clip, queryLower)
  THEN [clip EXCEPT !.score = @ + Boost]
  ELSE clip

\* matchedClips after both maps.  Every clip the pipeline publishes has an
\* embedding array (empty when its call failed), so clip.embedding is truthy.
matchedClips(cl, queryEmbedding) ==
  LET queryLower == toLowerCase(cl.searchQuery)
      segments == matchingTranscriptSegments(cl.transcript, queryLower)
  IN [i \in 1..Len(cl.clips) |->
        boost(WithScore(cl.clips[i], cosineSimilarity(queryEmbedding, cl.clips[i].embedding)),
              segments, queryLower)]

\* Mutant of finalFiltered: the score alone decides
finalFiltered_ScoreOnly(matched, queryLower) ==
  SelectSeq(matched, LAMBDA c : c.score > threshold)

\* "Filter logic: Must have some relevance"
finalFiltered(matched, queryLower) ==
  SelectSeq(matched, LAMBDA c : c.score > threshold \/ hasStubMatch(c, queryLower))

\* "Re-sort"
finalClips(cl, queryEmbedding) ==
  sortClips(finalFiltered(matchedClips(cl, queryEmbedding), toLowerCase(cl.searchQuery)),
            cl.sortOrder)

\* The fallback of the catch block
fallbackClips(cl) ==
  sortClips(SelectSeq(cl.clips, LAMBDA clip : hasStubMatch(clip, toLowerCase(cl.searchQuery))),
            cl.sortOrder)

\* The search box (rendered in READY): setSearchQuery; the debounce effect's
\* cleanup clears the pending timer and the effect arms a new one
SetSearchQuery(query) ==
  /\ appState = READY
  /\ query # searchQuery
  /\ searchQuery' = query
  /\ debounce' = << Closure(query) >>
  /\ UNCHANGED <<appState, clips, activeClip, progress, transcript, filteredClips, sortOrder,
                 runs, isSearching, searches>>

TypeQuery == \E query \in Queries : SetSearchQuery(query)

\* The timer fires and the query is blank: handleSearch shows every clip and
\* returns; then the auto-select effect
SearchBlank ==
  /\ debounce # <<>>
  /\ trim(debounce[1].searchQuery) = <<>>
  /\ filteredClips' = sortClips(debounce[1].clips, debounce[1].sortOrder)
  /\ activeClip' = AutoSelect(appState, filteredClips', activeClip)
  /\ debounce' = <<>>
  /\ UNCHANGED <<appState, clips, progress, transcript, sortOrder, runs,
                 searchQuery, isSearching, searches>>

\* The timer fires: handleSearch up to its await
SearchStarts ==
  /\ debounce # <<>>
  /\ trim(debounce[1].searchQuery) # <<>>
  /\ Len(searches) < MaxInFlight
  /\ isSearching' = TRUE
  /\ searches' = Append(searches, debounce[1])
  /\ debounce' = <<>>
  /\ UNCHANGED <<appState, clips, activeClip, progress, transcript, filteredClips, sortOrder,
                 runs, searchQuery>>

RemoveAt(seq, i) == SubSeq(seq, 1, i - 1) \o SubSeq(seq, i + 1, Len(seq))

\* A variant that also stores the scored clips as the session's clips
SearchSettles_StoresScores(i, outcome) ==
  /\ filteredClips' = finalClips(searches[i], generateEmbedding(searches[i].searchQuery, outcome))
  /\ clips' = matchedClips(searches[i], generateEmbedding(searches[i].searchQuery, outcome))
  /\ isSearching' = FALSE
  /\ activeClip' = AutoSelect(appState, filteredClips', activeClip)
  /\ searches' = RemoveAt(searches, i)
  /\ UNCHANGED <<appState, progress, transcript, sortOrder, runs, searchQuery, debounce>>

\* generateEmbedding settles for invocation i: the rest of the try block,
\* finally, then the auto-select effect.  generateEmbedding never throws and
\* nothing after it does, so the catch block is never entered.
SearchSettles(i, outcome) ==
  /\ filteredClips' = finalClips(searches[i], generateEmbedding(searches[i].searchQuery, outcome))
  /\ isSearching' = FALSE
  /\ activeClip' = AutoSelect(appState, filteredClips', activeClip)
  /\ searches' = RemoveAt(searches, i)
  /\ UNCHANGED <<appState, clips, progress, transcript, sortOrder, runs, searchQuery, debounce>>

SearchReturns ==
  \E i \in 1..Len(searches) : \E outcome \in EmbeddingOutcomes : SearchSettles(i, outcome)

\* clips.find(...) of handleTranscriptSegmentClick: the first clip whose span
\* holds the time, or NULL for undefined
clipAtTime(time) ==
  LET hits == { i \in 1..Len(clips) : time >= clips[i].startTime /\ time < clips[i].endTime }
  IN IF hits = {} THEN NULL ELSE clips[CHOOSE i \in hits : \A j \in hits : i <= j]

\* A variant without the if: undefined becomes the active clip
handleTranscriptSegmentClick_Unguarded(time) ==
  /\ appState = READY
  /\ activeClip' = clipAtTime(time)
  /\ UNCHANGED <<appState, clips, progress, transcript, filteredClips, sortOrder, runs, searchVars>>

\* handleTranscriptSegmentClick.  No state the auto-select effect depends on
\* changes, so no effect runs.
handleTranscriptSegmentClick(time) ==
  /\ appState = READY
  /\ activeClip' = IF clipAtTime(time) # NULL THEN clipAtTime(time) ELSE activeClip
  /\ UNCHANGED <<appState, clips, progress, transcript, filteredClips, sortOrder, runs, searchVars>>

\* TranscriptView: a click on a segment passes the segment's startTime
TranscriptSegmentClick ==
  \E i \in 1..Len(transcript) : handleTranscriptSegmentClick(transcript[i].startTime)

\* One step of invocation r of handleFileSelect: its continuation after an
\* await, or a callback of the services it awaits
RunStep(r) ==
  \/ OnLoadedMetadata(r)
  \/ OnSeeked(r)
  \/ ExtractFramesRejects(r)
  \/ AfterFrames(r)
  \/ VideoMetadataLoaded(r)
  \/ VideoMetadataError(r)
  \/ AnalyzeReturns(r)
  \/ ExtractAudioReturns(r)
  \/ ExtractAudioThrows(r)
  \/ TranscriptReturns(r)
  \/ EmbeddingReturns(r)
  \/ Publish(r)

\* The pipeline and the sort control
NextPipeline ==
  \/ HandleFileSelect
  \/ TryAgain
  \/ ChangeSortOrder
  \/ \E r \in 1..Len(runs) : OnLoadedMetadata(r)
  \/ \E r \in 1..Len(runs) : OnSeeked(r)
  \/ \E r \in 1..Len(runs) : ExtractFramesRejects(r)
  \/ \E r \in 1..Len(runs) : AfterFrames(r)
  \/ \E r \in 1..Len(runs) : VideoMetadataLoaded(r)
  \/ \E r \in 1..Len(runs) : VideoMetadataError(r)
  \/ \E r \in 1..Len(runs) : AnalyzeReturns(r)
  \/ \E r \in 1..Len(runs) : ExtractAudioReturns(r)
  \/ \E r \in 1..Len(runs) : ExtractAudioThrows(r)
  \/ \E r \in 1..Len(runs) : TranscriptReturns(r)
  \/ \E r \in 1..Len(runs) : EmbeddingReturns(r)
  \/ \E r \in 1..Len(runs) : Publish(r)

Next ==
  \/ NextPipeline
  \/ TypeQuery
  \/ SearchBlank
  \/ SearchStarts
  \/ SearchReturns
  \/ TranscriptSegmentClick

Spec == Init /\ [][Next]_vars

\* handleFileSelect itself tests nothing before it starts: called again while
\* a session exists (a run in flight, READY or ERROR), it starts the next run
ReenterFileSelect ==
  /\ appState # IDLE
  /\ Len(runs) < MaxRuns
  /\ StartRun

NextReentrant ==
  \/ NextPipeline
  \/ ReenterFileSelect

SpecReentrant == Init /\ [][NextReentrant]_vars

\* sortClips on its own: any list of clips, in any of the two orders.  Only
\* startTime and viralityScore are read; the id is the place in the input.
SortKeys == { [startTime |-> t, viralityScore |-> v] : t \in {0, 4}, v \in {40, 90} }

SortInputs ==
  { [i \in 1..Len(keys) |->
       [id |-> i - 1, startTime |-> keys[i].startTime, viralityScore |-> keys[i].viralityScore]] :
    keys \in SeqsUpTo(SortKeys, MaxSortLen) }

InitSort ==
  /\ clips \in SortInputs
  /\ sortOrder \in {"time", "viral"}
  /\ filteredClips = <<>>
  /\ appState = IDLE
  /\ activeClip = NULL
  /\ progress = [stage |-> "", progress |-> 0]
  /\ transcript = <<>>
  /\ runs = <<>>
  /\ searchQuery = <<>>
  /\ isSearching = FALSE
  /\ debounce = <<>>
  /\ searches = <<>>

\* sortClips(clips, sortOrder) is called and its result kept
ApplySort ==
  /\ clips # <<>>
  /\ filteredClips = <<>>
  /\ filteredClips' = sortClips(clips, sortOrder)
  /\ UNCHANGED <<appState, clips, activeClip, progress, transcript, sortOrder, runs, searchVars>>

SpecSort == InitSort /\ [][ApplySort]_vars

\* Raw clips with times on both sides of 0 and of the duration, and with
\* startTime before, at and after endTime
AnyRawClips ==
  { [startTime |-> s, endTime |-> e, title |-> <<"a">>, viralityScore |-> v,
     transcriptStub |-> <<"i", "n">>] :
    s \in {-5, 0, 4, 12}, e \in {-2, 4, 12, 110}, v \in {40, 90} }

\* The pipeline of one run whose visual analysis may return any raw clips:
\* every call but the analysis settles as in Spec, and no call fails fatally
AnalyzeReturnsAny(r) ==
  \E s \in SeqsUpTo(AnyRawClips, MaxAnyLen) : AnalyzeSettles(r, [kind |-> "json", clips |-> s])

NextAnyAnalysis ==
  \/ HandleFileSelect
  \/ \E r \in 1..Len(runs) : OnLoadedMetadata(r)
  \/ \E r \in 1..Len(runs) : OnSeeked(r)
  \/ \E r \in 1..Len(runs) : AfterFrames(r)
  \/ \E r \in 1..Len(runs) : VideoMetadataLoaded(r)
  \/ \E r \in 1..Len(runs) : AnalyzeReturnsAny(r)
  \/ \E r \in 1..Len(runs) : ExtractAudioReturns(r)
  \/ \E r \in 1..Len(runs) : ExtractAudioThrows(r)
  \/ \E r \in 1..Len(runs) : TranscriptReturns(r)
  \/ \E r \in 1..Len(runs) : EmbeddingReturns(r)
  \/ \E r \in 1..Len(runs) : Publish(r)

SpecAnyAnalysis == Init /\ [][NextAnyAnalysis]_vars

\* The clamping of analyzeVideoFrames on its own: any list of raw clips, for
\* a video of either duration
ClampDurations == {6, 10}

InitClamp ==
  /\ runs \in { << [pc |-> "analyze", duration |-> d, rawClips |-> raw, generatedClips |-> <<>>] >> :
                 d \in ClampDurations, raw \in SeqsUpTo(AnyRawClips, MaxClampLen) }
  /\ appState = ANALYZING
  /\ clips = <<>>
  /\ activeClip = NULL
  /\ progress = [stage |-> StageGemini, progress |-> 0]
  /\ transcript = <<>>
  /\ filteredClips = <<>>
  /\ sortOrder = "time"
  /\ searchQuery = <<>>
  /\ isSearching = FALSE
  /\ debounce = <<>>
  /\ searches = <<>>

\* rawClips.map(...) is applied and its result kept
ApplyClamp ==
  /\ runs[1].pc = "analyze"
  /\ runs' = << [runs[1] EXCEPT
                   !.generatedClips = ClampClips(runs[1].rawClips, runs[1].duration, 1),
                   !.pc = "extractAudio"] >>
  /\ UNCHANGED sessionVars

SpecClamp == InitClamp /\ [][ApplyClamp]_vars

\* extractFramesFromVideo on its own: called with any positive
\* intervalSeconds and maxFrames on a video of any positive duration; the
\* timestamps of the frames pushed are recorded (as numerators over maxFrames)
InitSampler ==
  /\ runs \in { << [pc |-> "loadMetadata", duration |-> d, intervalSeconds |-> iv,
                     maxFrames |-> mf, currentTime |-> 0, frames |-> 0,
                     timestamps |-> <<>>] >> :
                 d \in 1..MaxSampleDuration, iv \in 1..MaxSampleInterval,
                 mf \in 1..MaxSampleFrames }
  /\ appState = PROCESSING
  /\ clips = <<>>
  /\ activeClip = NULL
  /\ progress = [stage |-> StageFrames, progress |-> 0]
  /\ transcript = <<>>
  /\ filteredClips = <<>>
  /\ sortOrder = "time"
  /\ searchQuery = <<>>
  /\ isSearching = FALSE
  /\ debounce = <<>>
  /\ searches = <<>>

\* video.onloadedmetadata: currentTime = 0 and the first captureFrame()
SamplerLoaded ==
  /\ runs[1].pc = "loadMetadata"
  /\ runs' = << [runs[1] EXCEPT
       !.pc = IF CaptureDone(0, runs[1].duration, 0, runs[1].maxFrames)
              THEN "framesResolved" ELSE "seeking"] >>
  /\ UNCHANGED sessionVars

\* video.onseeked: frames.push({timestamp: currentTime}), onProgress,
\* currentTime += finalInterval, captureFrame()
SamplerSeeked ==
  /\ runs[1].pc = "seeking"
  /\ LET run == runs[1]
         next == run.currentTime + FinalInterval(run.duration, run.intervalSeconds, run.maxFrames)
     IN /\ progress' = [stage |-> StageFrames,
                        progress |-> FrameProgress(run.currentTime, run.duration, run.maxFrames)]
        /\ runs' = << [run EXCEPT
             !.timestamps = Append(run.timestamps, run.currentTime),
             !.frames = run.frames + 1,
             !.currentTime = next,
             !.pc = IF CaptureDone(next, run.duration, run.frames + 1, run.maxFrames)
                    THEN "framesResolved" ELSE "seeking"] >>
  /\ UNCHANGED <<appState, clips, activeClip, transcript, filteredClips, sortOrder, searchVars>>

SpecSampler == InitSampler /\ [][SamplerLoaded \/ SamplerSeeked]_vars

\* The overlap test of handleSearch on its own: one clip and one matching
\* transcript segment with any spans (an empty span included)
SpanPool == { [startTime |-> a, endTime |-> b] : a, b \in 0..MaxSpan }

InitOverlap ==
  /\ clips \in { << c >> : c \in { sp \in SpanPool : sp.startTime <= sp.endTime } }
  /\ transcript \in { << seg >> : seg \in { sp \in SpanPool : sp.startTime <= sp.endTime } }
  /\ runs = << [pc |-> "search"] >>
  /\ appState = READY
  /\ activeClip = NULL
  /\ progress = [stage |-> StageIndex, progress |-> 90]
  /\ filteredClips = <<>>
  /\ sortOrder = "time"
  /\ searchQuery = <<>>
  /\ isSearching = FALSE
  /\ debounce = <<>>
  /\ searches = <<>>

\* const hasTranscriptMatch = matchingTranscriptSegments.some(...)
ApplyOverlap ==
  /\ runs[1].pc = "search"
  /\ runs' = << [pc |-> "tested", hasTranscriptMatch |-> hasTranscriptMatch(clips[1], transcript)] >>
  /\ UNCHANGED sessionVars

SpecOverlap == InitOverlap /\ [][ApplyOverlap]_vars

\* ------------------------------------------------------------------ claims
Latest == Len(runs)

\* extractFramesFromVideo rejected or the visual-analysis call threw
ThrewFatally(rec) == rec.sampling = "rejected" \/ rec.analysis = "throws"

\* C1: when frame sampling fails or the visual-analysis backend throws, the
\* run ends in ERROR at that step, is never READY afterwards, and neither
\* clips nor the displayed list hold anything (IDLE only after Try Again).
FatalFailureEndsInError ==
  /\ [](\A r \in 1..Len(runs) : (r = Latest /\ ThrewFatally(runs[r])) =>
          /\ runs[r].pc = "done"
          /\ appState \in {ERROR, IDLE}
          /\ clips = <<>>
          /\ filteredClips = <<>>)
  /\ [][\A r \in 1..Len(runs) :
          (~ThrewFatally(runs[r]) /\ ThrewFatally(runs'[r])) => appState' = ERROR]_vars

\* C1 witness: the visual analysis threw and the app shows the error screen
FatalFailureSeen ==
  /\ Latest > 0
  /\ runs[Latest].analysis = "throws"
  /\ appState = ERROR

\* extractAudio or the transcription backend threw
AudioFailed(rec) == rec.audio \in {"extractAudioThrows", "transcribeThrows"}

\* The session's clips are the run's clips, each once
PublishedAll(rec) ==
  /\ Len(clips) = Len(rec.generatedClips)
  /\ \A i \in 1..Len(rec.generatedClips) :
       \E j \in 1..Len(clips) : clips[j].id = rec.generatedClips[i].id

\* C2: when audio extraction or transcription fails, the run goes on to the
\* embedding stage, never shows ERROR, keeps transcript = [] and, once it has
\* ended, is READY with every clip published.
AudioFailureAbsorbed ==
  \A r \in 1..Len(runs) : (r = Latest /\ AudioFailed(runs[r])) =>
     /\ runs[r].pc \in {"embed", "done"}
     /\ appState # ERROR
     /\ transcript = <<>>
     /\ runs[r].pc = "done" => (appState = READY /\ PublishedAll(runs[r]))

\* C2 witness: extractAudio threw and the run is READY with two clips
AudioFailureSeen ==
  /\ Latest > 0
  /\ runs[Latest].audio = "extractAudioThrows"
  /\ appState = READY
  /\ Len(clips) = 2

\* C3: whatever subset of the embedding calls fails, a run whose analysis
\* returned N clips never shows ERROR and ends READY with N clips; the clip of
\* a failed call carries [] and every other clip the vector of its own text.
EmbeddingFailuresIsolated ==
  \A r \in 1..Len(runs) : (r = Latest /\ runs[r].analysis = "json") =>
     /\ appState \in {ANALYZING, READY}
     /\ runs[r].pc = "done" =>
          /\ appState = READY
          /\ Len(clips) = Len(runs[r].generatedClips)
          /\ \A i \in 1..Len(runs[r].generatedClips) :
               \E j \in 1..Len(clips) :
                  /\ clips[j].id = runs[r].generatedClips[i].id
                  /\ clips[j].embedding =
                       IF runs[r].embeddings[i].state = "failed" THEN <<>>
                       ELSE EmbeddingOf(runs[r].generatedClips[i].title)

\* C3 witness: two clips published, the call of one failed, the other's did not
EmbeddingFailureSeen ==
  /\ appState = READY
  /\ Len(clips) = 2
  /\ \E i, j \in 1..Len(clips) : clips[i].embedding = <<>> /\ clips[j].embedding # <<>>

\* C4 (as claimed): a visual analysis that yields no clip candidates, a
\* well-formed empty list included, ends the run in the failed state.
EmptyAnalysisIsFatal ==
  \A r \in 1..Len(runs) :
     (/\ r = Latest
      /\ runs[r].analysis \in {"noText", "badJson", "json"}
      /\ runs[r].generatedClips = <<>>
      /\ runs[r].pc = "done") => appState \in {ERROR, IDLE}

\* The pipeline stage the app shows
Stage ==
  CASE appState = IDLE -> "Idle"
    [] appState = PROCESSING -> "Sampling"
    [] appState = ANALYZING /\ progress.stage = StageTranscribe -> "Transcribing"
    [] appState = ANALYZING /\ progress.stage = StageIndex -> "Embedding"
    [] appState = ANALYZING -> "VisualAnalysis"
    [] appState = READY -> "Ready"
    [] OTHER -> "Failed"

StageOrder ==
  { <<"Idle", "Sampling">>, <<"Sampling", "VisualAnalysis">>,
    <<"VisualAnalysis", "Transcribing">>, <<"Transcribing", "Embedding">>,
    <<"Embedding", "Ready">>,
    <<"Sampling", "Failed">>, <<"VisualAnalysis", "Failed">>,
    <<"Failed", "Idle">> }   \* Try Again, between two runs

\* C5: the stage changes only along Idle -> Sampling -> VisualAnalysis ->
\* Transcribing -> Embedding -> Ready; Failed is entered only from Sampling or
\* VisualAnalysis, and is left only by Try Again.
StagesAdvanceInOrder ==
  [][Stage' # Stage => <<Stage, Stage'>> \in StageOrder]_vars

\* C5 witness: a first run failed, the retry went through every stage
RetryReachedReady ==
  /\ Latest = 2
  /\ appState = READY
  /\ Len(clips) > 0

\* Some invocation of handleFileSelect can take a step
RunProgress == \E r \in 1..Len(runs) : RunStep(r)

\* C6 (as claimed): when every external call returns or fails, a run does not
\* stay in PROCESSING or ANALYZING: while the app shows either, the run still
\* has a step to take.
RunNeverStuck ==
  appState \in {PROCESSING, ANALYZING} => ENABLED RunProgress

\* C7 (as claimed): the session holds the run's transcript exactly when the
\* run's clips are published.
TranscriptAndClipsTogether ==
  \A r \in 1..Len(runs) : (r = Latest /\ runs[r].generatedTranscript # <<>>) =>
     (transcript = runs[r].generatedTranscript
        <=> (runs[r].pc = "done" /\ appState = READY /\ PublishedAll(runs[r])))

FailedRunLeavesNothing ==
  /\ [](appState = ERROR =>
          clips = <<>> /\ filteredClips = <<>> /\ activeClip = NULL /\ transcript = <<>>)
  /\ [][(appState = ERROR /\ sessionVars' # sessionVars) =>
          /\ appState' = IDLE
          /\ UNCHANGED <<clips, activeClip, progress, transcript, filteredClips, sortOrder, searchVars>>]_vars

\* C10 witness: a run failed on a malformed analysis and Try Again was pressed
FailedThenIdle ==
  /\ Latest = 1
  /\ runs[1].analysis = "badJson"
  /\ appState = IDLE

\* The ids of the clips of a list
Ids(list) == { list[i].id : i \in 1..Len(list) }

\* No debounce timer is pending and no handleSearch awaits its embedding
SearchIdle == debounce = <<>> /\ searches = <<>>

\* What a search for query shows, for each way its embedding call can settle
ResultsOf(query) ==
  IF trim(query) = <<>> THEN { Ids(clips) }
  ELSE { Ids(finalClips(Closure(query), generateEmbedding(query, outcome))) :
           outcome \in EmbeddingOutcomes }

\* C11 (as claimed): in READY, once no debounce timer is pending and no
\* search is in flight, the displayed clips are the result of the query
\* issued last (the one in the search box).
LastIssuedQueryWins ==
  (appState = READY /\ SearchIdle) => Ids(filteredClips) \in ResultsOf(searchQuery)

\* The ids of the clips of a list, in the order of the list
IdSeq(list) == [i \in 1..Len(list) |-> list[i].id]

\* Invocation i of handleSearch settles in this step
Settles(i) == i \in 1..Len(searches) /\ searches' = RemoveAt(searches, i)

\* C12 (as claimed): when the embedding call of a search fails, the app stays
\* READY and the list shown is exactly the clips whose transcriptStub
\* contains the query (case-insensitively), in the order of the sort policy.
FailedEmbeddingFallsBackToStub ==
  [][\A i \in 1..Len(searches) :
       (/\ Settles(i)
        /\ filteredClips' =
             finalClips(searches[i], generateEmbedding(searches[i].searchQuery, "throws")))
       => /\ appState' = appState
          /\ IdSeq(filteredClips') = IdSeq(fallbackClips(searches[i]))]_vars

\* The list shown carries the scores of a search
Scored(list) == \A j \in 1..Len(list) : "score" \in DOMAIN list[j]

\* C13: when a search for a non-blank query settles, a clip of the session is
\* in the list shown if and only if its final score (base similarity plus
\* boost) is above 0.3 or its transcriptStub contains the query
\* case-insensitively; a clip with an empty embedding whose transcriptStub
\* contains the query is therefore always shown.
SearchKeepsRelevantClips ==
  [][\A i \in 1..Len(searches) : Settles(i) =>
       \E outcome \in EmbeddingOutcomes :
         LET cl == searches[i]
             queryLower == toLowerCase(cl.searchQuery)
             scored == matchedClips(cl, generateEmbedding(cl.searchQuery, outcome))
         IN /\ trim(cl.searchQuery) # <<>>
            /\ \A j \in 1..Len(filteredClips') :
                 \E k \in 1..Len(scored) : filteredClips'[j] = scored[k]
            /\ \A k \in 1..Len(scored) :
                 /\ scored[k].id \in Ids(filteredClips')
                      <=> \/ scored[k].score > 30
                          \/ includes(toLowerCase(scored[k].transcriptStub), queryLower)
                 /\ (/\ scored[k].embedding = <<>>
                     /\ includes(toLowerCase(scored[k].transcriptStub), queryLower))
                      => scored[k].id \in Ids(filteredClips')]_vars

\* C13 witness: a search has settled; it dropped a clip and kept one whose
\* final score is not above 0.3
StubMatchKeptBelowThreshold ==
  /\ appState = READY
  /\ SearchIdle
  /\ Scored(filteredClips)
  /\ Len(filteredClips) < Len(clips)
  /\ \E j \in 1..Len(filteredClips) : filteredClips[j].score <= 30

\* The clip and the segment overlap in time: the segment starts inside the
\* clip, or ends inside it, or spans it
Overlaps(clip, seg) ==
  \/ seg.startTime >= clip.startTime /\ seg.startTime < clip.endTime
  \/ seg.endTime > clip.startTime /\ seg.endTime <= clip.endTime
  \/ clip.startTime >= seg.startTime /\ clip.endTime <= seg.endTime

\* The clip earns the boost for the query: a transcript segment that contains
\* the query overlaps it, or its own transcriptStub contains the query
EarnsBoost(clip, segments, queryLower) ==
  \/ \E k \in 1..Len(segments) :
       includes(toLowerCase(segments[k].text), queryLower) /\ Overlaps(clip, segments[k])
  \/ includes(toLowerCase(clip.transcriptStub), queryLower)

BlankQueryFires ==
  debounce # <<>> /\ debounce' = <<>> /\ trim(debounce[1].searchQuery) = <<>>

\* C15 (as claimed): a search with a blank query starts no embedding call and
\* shows every clip of the session, in the order of the current sort policy.
BlankQueryShowsAllClips ==
  [][BlankQueryFires =>
       /\ searches' = searches
       /\ filteredClips' = sortClips(clips, sortOrder)]_vars

\* The list is ascending by startTime (time) or descending by viralityScore
\* (viral)
Ordered(list, order) ==
  \A i, j \in 1..Len(list) : i < j =>
     IF order = "viral" THEN list[i].viralityScore >= list[j].viralityScore
                        ELSE list[i].startTime <= list[j].startTime

\* Two clips tie under the order
Ties(a, b, order) ==
  IF order = "viral" THEN a.viralityScore = b.viralityScore ELSE a.startTime = b.startTime

\* C16: sortClips returns a permutation of its input, ascending by startTime
\* for 'time' and descending by viralityScore for 'viral', in which clips that
\* tie keep their input order; scores [90, 40, 90] give [clip0, clip2, clip1].
SortIsStablePermutation ==
  filteredClips # <<>> =>
    /\ Len(filteredClips) = Len(clips)
    /\ \A i \in 1..Len(clips) : \E j \in 1..Len(filteredClips) : filteredClips[j] = clips[i]
    /\ Ordered(filteredClips, sortOrder)
    /\ \A i, j \in 1..Len(filteredClips) :
         (i < j /\ Ties(filteredClips[i], filteredClips[j], sortOrder))
           => filteredClips[i].id < filteredClips[j].id
    /\ (/\ sortOrder = "viral"
        /\ [i \in 1..Len(clips) |-> clips[i].viralityScore] = <<90, 40, 90>>)
         => IdSeq(filteredClips) = <<0, 2, 1>>

\* C16 witness: the scores [90, 40, 90] have been sorted by virality
TieKeptInputOrder ==
  /\ sortOrder = "viral"
  /\ [i \in 1..Len(clips) |-> clips[i].viralityScore] = <<90, 40, 90>>
  /\ IdSeq(filteredClips) = <<0, 2, 1>>

\* A run reaches READY in this step
ReachesReady == appState # READY /\ appState' = READY

\* C17: when a run reaches READY, all of its clips are published, the stored
\* and the displayed list are in the order of the sort policy selected at
\* that moment, and the active clip is the first clip of that order.
PublishedInSortOrder ==
  [][ReachesReady =>
       /\ Ids(clips') = Ids(runs'[Latest].generatedClips)
       /\ Len(clips') = Len(runs'[Latest].generatedClips)
       /\ Ordered(clips', sortOrder')
       /\ filteredClips' = clips'
       /\ Len(clips') > 0 => activeClip' = clips'[1]]_vars

\* C17 witness: two clips are published, the one the analysis returned second
\* starts first and is the active clip
SecondClipPublishedFirst ==
  /\ appState = READY
  /\ Len(clips) = 2
  /\ clips[1].startTime < clips[2].startTime
  /\ clips[1].id[2] = 1
  /\ activeClip = clips[1]
  /\ filteredClips = clips

\* C18 (as claimed): the clips are published in the order in which the visual
\* analysis returned them.
PublishedInAnalysisOrder ==
  [][ReachesReady => IdSeq(clips') = IdSeq(runs'[Latest].generatedClips)]_vars

\* C18 (amended): the clips are published in the order of the sort policy;
\* clips that tie under it keep the order in which the visual analysis
\* returned them, and every clip carries the result of its own embedding
\* call, in whatever order the calls settled.
PublishedOrderFromAnalysisAndPolicy ==
  [][ReachesReady =>
       /\ Ordered(clips', sortOrder')
       /\ \A i, j \in 1..Len(clips') :
            (i < j /\ Ties(clips'[i], clips'[j], sortOrder')) => clips'[i].id[2] < clips'[j].id[2]
       /\ \A j \in 1..Len(clips') :
            /\ clips'[j].id[2] + 1 \in 1..Len(runs'[Latest].embeddings)
            /\ clips'[j].embedding = runs'[Latest].embeddings[clips'[j].id[2] + 1].value]_vars

\* C18 witness: two clips that tie are published in analysis order, the
\* embedding call of the first failed and that of the second did not
TiedClipsInAnalysisOrder ==
  /\ appState = READY
  /\ Len(clips) = 2
  /\ Ties(clips[1], clips[2], "time")
  /\ IdSeq(clips) = IdSeq(runs[Latest].generatedClips)
  /\ clips[1].embedding = <<>>
  /\ clips[2].embedding # <<>>

\* C19: a change of the sort order happens in READY; it leaves the displayed
\* list with the same clips, in the order of the new policy, and makes the
\* first of them the active clip.
SortChangeReordersDisplayed ==
  [][sortOrder' # sortOrder =>
       /\ appState = READY /\ appState' = READY
       /\ Len(filteredClips') = Len(filteredClips)
       /\ \A i \in 1..Len(filteredClips) :
            \E j \in 1..Len(filteredClips') : filteredClips'[j] = filteredClips[i]
       /\ Ordered(filteredClips', sortOrder')
       /\ Len(filteredClips') > 0 => activeClip' = filteredClips'[1]]_vars

\* C19 witness: a query was typed under 'time' and its timer is still
\* pending; the order is 'viral' now, and the two clips of the last search
\* result are displayed by descending score, the later clip first and active
SearchResultResorted ==
  /\ appState = READY
  /\ sortOrder = "viral"
  /\ debounce # <<>>
  /\ debounce[1].sortOrder = "time"
  /\ Scored(filteredClips)
  /\ Len(filteredClips) = 2
  /\ filteredClips[1].viralityScore > filteredClips[2].viralityScore
  /\ filteredClips[1].startTime > filteredClips[2].startTime
  /\ activeClip = filteredClips[1]

\* The progress event of this step stays within the stage of the same run
SameStage == progress'.stage = progress.stage /\ Len(runs') = Len(runs)

\* C20 (as claimed): progress never decreases within a stage, and the first
\* progress event of every stage reports 0.
EveryStageStartsAtZero ==
  [][progress' # progress =>
       IF SameStage THEN progress'.progress >= progress.progress
                    ELSE progress'.progress = 0]_vars

\* The progress the first event of a stage reports
StageStart(stage) ==
  CASE stage = StageFrames -> 0
    [] stage = StageGemini -> 0
    [] stage = StageTranscribe -> 50
    [] stage = StageIndex -> 90

\* C20 (amended): progress never decreases within a stage; the first event
\* of the frame and of the analysis stage reports 0, that of the
\* transcription stage 50 and that of the indexing stage 90.
StagesStartAtFixedProgress ==
  [][progress' # progress =>
       IF SameStage THEN progress'.progress >= progress.progress
                    ELSE /\ progress'.stage \in {StageFrames, StageGemini, StageTranscribe, StageIndex}
                         /\ progress'.progress = StageStart(progress'.stage)]_vars

\* C20 witness: the frame stage has reported 80 after its third frame
FrameProgressRose ==
  /\ appState = PROCESSING
  /\ progress = [stage |-> StageFrames, progress |-> 80]
  /\ runs[Latest].frames = 3

\* C21 (as claimed): every clip a run publishes satisfies
\* 0 <= startTime < endTime <= videoDuration (a raw clip that does not after
\* clamping is dropped).
PublishedClipsAreProper ==
  appState = READY =>
    \A i \in 1..Len(clips) :
       /\ 0 <= clips[i].startTime
       /\ clips[i].startTime < clips[i].endTime
       /\ clips[i].endTime <= runs[Latest].duration

\* C22: analyzeVideoFrames stores every raw clip with
\* startTime = max(0, raw startTime) and endTime = min(videoDuration, raw
\* endTime), and with every other field as it came.
Clamped ==
  runs[1].pc = "extractAudio" =>
    /\ Len(runs[1].generatedClips) = Len(runs[1].rawClips)
    /\ \A i \in 1..Len(runs[1].rawClips) :
         LET raw == runs[1].rawClips[i]
             out == runs[1].generatedClips[i]
         IN /\ out.startTime = (IF raw.startTime < 0 THEN 0 ELSE raw.startTime)
            /\ out.endTime = (IF raw.endTime > runs[1].duration THEN runs[1].duration ELSE raw.endTime)
            /\ out.title = raw.title
            /\ out.viralityScore = raw.viralityScore
            /\ out.transcriptStub = raw.transcriptStub

ClampedAtBothEnds ==
  /\ runs[1].pc = "extractAudio"
  /\ \E i \in 1..Len(runs[1].rawClips) :
       /\ runs[1].rawClips[i].startTime = -5
       /\ runs[1].rawClips[i].endTime = runs[1].duration + 100
       /\ runs[1].generatedClips[i].startTime = 0
       /\ runs[1].generatedClips[i].endTime = runs[1].duration

\* C23: for every positive duration, base interval and maxFrames the sampler
\* emits at most maxFrames timestamps, all in [0, videoDuration), starting at
\* 0 and each max(baseInterval, videoDuration / maxFrames) after the one
\* before (so strictly increasing).
EffectiveInterval ==
  IF runs[1].intervalSeconds * runs[1].maxFrames >= runs[1].duration
  THEN runs[1].intervalSeconds * runs[1].maxFrames
  ELSE runs[1].duration

SamplerSchedule ==
  LET ts == runs[1].timestamps
  IN /\ Len(ts) <= runs[1].maxFrames
     /\ \A i \in 1..Len(ts) : 0 <= ts[i] /\ ts[i] < runs[1].duration * runs[1].maxFrames
     /\ runs[1].pc = "framesResolved" => Len(ts) >= 1
     /\ Len(ts) >= 1 => ts[1] = 0
     /\ \A i \in 1..(Len(ts) - 1) :
          ts[i + 1] > ts[i] /\ ts[i + 1] - ts[i] = EffectiveInterval

SampledAtBaseInterval ==
  /\ runs[1].pc = "framesResolved"
  /\ Len(runs[1].timestamps) = 3
  /\ runs[1].maxFrames = 5
  /\ runs[1].timestamps[3] = 2 * runs[1].intervalSeconds * runs[1].maxFrames
  /\ runs[1].duration = 3 * runs[1].intervalSeconds

Spans(t) ==
  { clips[i] : i \in { j \in 1..Len(clips) : clips[j].startTime <= t /\ t < clips[j].endTime } }

ClickSelectsClipAtTime ==
  [][\A t \in { transcript[i].startTime : i \in 1..Len(transcript) } :
       handleTranscriptSegmentClick(t) =>
         /\ UNCHANGED <<appState, clips, progress, transcript, filteredClips, sortOrder, runs, searchVars>>
         /\ IF Spans(t) = {} THEN activeClip' = activeClip ELSE activeClip' \in Spans(t)]_vars

ClickedPastClipEndingAtTime ==
  /\ appState = READY
  /\ Len(transcript) = 1 /\ transcript[1].startTime = 4
  /\ \E i \in 1..Len(clips) : clips[i].endTime = 4
  /\ activeClip # NULL /\ activeClip.startTime = 4
  /\ filteredClips # <<>> /\ filteredClips[1].id # activeClip.id

\* C26: search is read-only: a step of a search (its timer firing on a blank
\* or a non-blank query, or its embedding call settling) leaves clips and
\* transcript as they were, and no clip of the stored clips ever carries the
\* score of a search.
SearchStep ==
  \/ debounce # <<>> /\ debounce' = <<>>
  \/ \E i \in 1..Len(searches) : Settles(i)

SearchIsReadOnly ==
  /\ [](\A i \in 1..Len(clips) : "score" \notin DOMAIN clips[i])
  /\ [][SearchStep => UNCHANGED <<clips, transcript>>]_vars

ScoredResultBesideStoredClips ==
  /\ appState = READY
  /\ SearchIdle
  /\ filteredClips # <<>> /\ Scored(filteredClips)
  /\ Len(clips) = 2
  /\ transcript # <<>>

\* C27 (as claimed): in READY, whenever no debounce timer is pending and no
\* search is in flight, the list shown is in the order of the sort policy
\* selected now, also when the policy changed while a query was pending or
\* its embedding call was in flight.
DisplayedInSelectedOrder ==
  (appState = READY /\ SearchIdle) => Ordered(filteredClips, sortOrder)

\* C28 (as claimed): in READY, once the effects have run, the active clip is
\* one of the clips shown: never a clip the latest search filtered out.
ActiveClipIsDisplayed ==
  (appState = READY /\ activeClip # NULL) => activeClip.id \in Ids(filteredClips)

\* C29: for a clip and a segment that both have startTime < endTime, the
\* three-case overlap test is true exactly when their half-open spans
\* intersect (the segment starts before the clip ends and ends after the clip
\* starts); spans that only touch do not overlap.
OverlapIsHalfOpenIntersection ==
  (/\ runs[1].pc = "tested"
   /\ clips[1].startTime < clips[1].endTime
   /\ transcript[1].startTime < transcript[1].endTime)
  => (runs[1].hasTranscriptMatch <=>
        (transcript[1].startTime < clips[1].endTime /\ transcript[1].endTime > clips[1].startTime))

TouchingSpansDoNotOverlap ==
  /\ runs[1].pc = "tested"
  /\ clips[1].startTime < clips[1].endTime
  /\ transcript[1].startTime = clips[1].endTime
  /\ transcript[1].startTime < transcript[1].endTime
  /\ ~runs[1].hasTranscriptMatch

\* C30 (as claimed): isSearching is true in every state in which at least one
\* search for a non-blank query is in flight, and false when none is, also
\* when two searches overlap and the first finishes while the second awaits.
SearchingWhileInFlight ==
  isSearching <=> (searches # <<>>)

====
